---- MODULE Spec2Model ----
(***************************************************************************)
(* State-machine model of the ERC-721 ledger of stylus_nft                 *)
(* (src/src/erc721.rs, src/src/lib.rs).                                    *)
(*                                                                         *)
(* The ledger is the five storage fields of Erc721<T>.  Every public       *)
(* method is a pure operator from (ledger, msg::sender, arguments) to a    *)
(* result record [err, st, log]; an action applies one method.  A method   *)
(* that returns Err reverts the call, so the action then leaves the ledger *)
(* as it was and records no event.  U256 arithmetic is ruint's wrapping    *)
(* arithmetic; the model keeps the wrap-around with a scaled modulus.      *)
(* Reentrant entry from the receiver callback is not part of Spec: the     *)
(* callback acts on the ledger only through the value it returns.          *)
(* SpecReentrant adds it: a safeTransferFrom is suspended in the call of    *)
(* onERC721Received while the receiver calls the ledger.                   *)
(***************************************************************************)
EXTENDS Integers, Sequences, FiniteSets, TLC

\* ------------------------------------------------------------------ bounds
\* Number of tokens that may be minted; ids 0..MaxTokens-1 can exist, the id
\* MaxTokens is never minted.
MaxTokens == 2
\* At most this many operator grants are set at the same time.
MaxGrants == 1
\* Stand-in for 2^256, the modulus of U256 arithmetic.
BalanceModulus == 16
\* Nesting depth of suspended safeTransferFrom calls in SpecReentrant.
MaxDepth == 1

\* --------------------------------------------------------------- constants
\* Address::default(), the zero address.
Zero == 0
\* const ERC721_TOKEN_RECEIVER_ID: u32 = 0x150b7a02
ERC721_TOKEN_RECEIVER_ID == 353073666

Addr == {0, 1, 2}
\* Addresses for which Address::has_code() is true.
Contracts == {2}
\* msg::sender() of a transaction is never the zero address.
Senders == Addr \ {Zero}
Ids == 0 .. MaxTokens

\* What the receiver's onERC721Received does: the call fails, or it returns
\* four bytes.
Replies == { [ok |-> TRUE,  ret |-> ERC721_TOKEN_RECEIVER_ID],
             [ok |-> TRUE,  ret |-> 0],
             [ok |-> FALSE, ret |-> 0] }

\* Only an address with code is called; for any other address there is no
\* reply to choose.
NoReply == [ok |-> FALSE, ret |-> 0]
RepliesOf(to) == IF to \in Contracts THEN Replies ELSE {NoReply}

VARIABLES owners, balances, token_approvals, operator_approvals, total_supply,
          last, log, pending

ledger == <<owners, balances, token_approvals, operator_approvals, total_supply>>
vars == <<owners, balances, token_approvals, operator_approvals, total_supply,
          last, log, pending>>

\* The storage struct Erc721<T> as one value.
Erc721 == [ owners             |-> owners,
            balances           |-> balances,
            token_approvals    |-> token_approvals,
            operator_approvals |-> operator_approvals,
            total_supply       |-> total_supply ]

\* U256 wrapping subtraction and addition of one.
U256Sub1(x) == (x + BalanceModulus - 1) % BalanceModulus
U256Add1(x) == (x + 1) % BalanceModulus

\* The events of erc721.rs, as evm::log records them.
Transfer(from, to, token_id) ==
    [event |-> "Transfer", from |-> from, to |-> to, token_id |-> token_id]
Approval(owner, approved, token_id) ==
    [event |-> "Approval", owner |-> owner, approved |-> approved, token_id |-> token_id]
ApprovalForAll(owner, operator, approved) ==
    [event |-> "ApprovalForAll", owner |-> owner, operator |-> operator,
     approved |-> approved]

Ok(st, lg)  == [err |-> "Ok", st |-> st, log |-> lg]
Err(e, st)  == [err |-> e, st |-> st, log |-> <<>>]

\* ------------------------------------------------------------ read methods
balance_of(st, owner) == st.balances[owner]

owner_of(st, token_id) ==
    IF st.owners[token_id] = Zero
    THEN [err |-> "InvalidTokenId", owner |-> Zero]
    ELSE [err |-> "Ok", owner |-> st.owners[token_id]]

get_approved(st, token_id) == st.token_approvals[token_id]

is_approved_for_all(st, owner, operator) == st.operator_approvals[owner][operator]

\* ------------------------------------------------------- internal methods
\* Mutant: the operator and single-token approval checks are skipped.
require_authorized_to_spend_NoApprovalCheck(st, sender, from, token_id) ==
    LET r == owner_of(st, token_id) IN
    IF r.err # "Ok" THEN r.err
    ELSE IF from # r.owner THEN "NotOwner"
    ELSE "Ok"

\* Mutant: the approvals are checked before from is compared with the owner.
require_authorized_to_spend_ApprovalFirst(st, sender, from, token_id) ==
    LET r == owner_of(st, token_id) IN
    IF r.err # "Ok" THEN r.err
    ELSE IF /\ sender # r.owner
            /\ ~st.operator_approvals[r.owner][sender]
            /\ sender # st.token_approvals[token_id] THEN "NotApproved"
    ELSE IF from # r.owner THEN "NotOwner"
    ELSE "Ok"

require_authorized_to_spend(st, sender, from, token_id) ==
    LET r == owner_of(st, token_id) IN
    IF r.err # "Ok" THEN r.err
    ELSE IF from # r.owner THEN "NotOwner"
    ELSE IF sender = r.owner THEN "Ok"
    ELSE IF st.operator_approvals[r.owner][sender] THEN "Ok"
    ELSE IF sender = st.token_approvals[token_id] THEN "Ok"
    ELSE "NotApproved"

\* Mutant: the balance of from is not decremented.
transfer_NoDebit(st, token_id, from, to) ==
    LET previous_owner == st.owners[token_id] IN
    IF previous_owner # from THEN Err("NotOwner", st)
    ELSE LET s1 == [st EXCEPT !.owners[token_id] = to]
             s3 == [s1 EXCEPT !.balances[to] = U256Add1(@)]
             s4 == [s3 EXCEPT !.token_approvals[token_id] = Zero]
         IN Ok(s4, << Transfer(from, to, token_id) >>)

\* Mutant: the single-token approval is not deleted.
transfer_KeepApproval(st, token_id, from, to) ==
    LET previous_owner == st.owners[token_id] IN
    IF previous_owner # from THEN Err("NotOwner", st)
    ELSE LET s1 == [st EXCEPT !.owners[token_id] = to]
             s2 == [s1 EXCEPT !.balances[from] = U256Sub1(@)]
             s3 == [s2 EXCEPT !.balances[to] = U256Add1(@)]
         IN Ok(s3, << Transfer(from, to, token_id) >>)

\* Mutant: a transfer also drops the operator grants of from.
transfer_ClearsOperators(st, token_id, from, to) ==
    LET previous_owner == st.owners[token_id] IN
    IF previous_owner # from THEN Err("NotOwner", st)
    ELSE LET s1 == [st EXCEPT !.owners[token_id] = to]
             s2 == [s1 EXCEPT !.balances[from] = U256Sub1(@)]
             s3 == [s2 EXCEPT !.balances[to] = U256Add1(@)]
             s4 == [s3 EXCEPT !.token_approvals[token_id] = Zero]
             s5 == [s4 EXCEPT !.operator_approvals[from] = [b \in Addr |-> FALSE]]
         IN Ok(s5, << Transfer(from, to, token_id) >>)

\* Mutant: the approval is deleted only when the token stays alive.
transfer_KeepApprovalOnBurn(st, token_id, from, to) ==
    LET previous_owner == st.owners[token_id] IN
    IF previous_owner # from THEN Err("NotOwner", st)
    ELSE LET s1 == [st EXCEPT !.owners[token_id] = to]
             s2 == [s1 EXCEPT !.balances[from] = U256Sub1(@)]
             s3 == [s2 EXCEPT !.balances[to] = U256Add1(@)]
             s4 == IF to = Zero THEN s3
                   ELSE [s3 EXCEPT !.token_approvals[token_id] = Zero]
         IN Ok(s4, << Transfer(from, to, token_id) >>)

transfer(st, token_id, from, to) ==
    LET previous_owner == st.owners[token_id] IN
    IF previous_owner # from THEN Err("NotOwner", st)
    ELSE LET s1 == [st EXCEPT !.owners[token_id] = to]
             s2 == [s1 EXCEPT !.balances[from] = U256Sub1(@)]
             s3 == [s2 EXCEPT !.balances[to] = U256Add1(@)]
             s4 == [s3 EXCEPT !.token_approvals[token_id] = Zero]
         IN Ok(s4, << Transfer(from, to, token_id) >>)

\* Mutant: any four bytes the receiver returns are taken as acceptance.
call_receiver_AnyReturn(to, reply) ==
    IF to \in Contracts
    THEN IF ~reply.ok THEN "ReceiverRefused" ELSE "Ok"
    ELSE "Ok"

\* Mutant: the receiver is called whether or not the address has code.
call_receiver_NoCodeProbe(to, reply) ==
    IF ~reply.ok THEN "ReceiverRefused"
    ELSE IF reply.ret # ERC721_TOKEN_RECEIVER_ID THEN "ReceiverRefused"
    ELSE "Ok"

call_receiver(to, reply) ==
    IF to \in Contracts
    THEN IF ~reply.ok THEN "ReceiverRefused"
         ELSE IF reply.ret # ERC721_TOKEN_RECEIVER_ID THEN "ReceiverRefused"
         ELSE "Ok"
    ELSE "Ok"

safe_transfer(st, token_id, from, to, reply) ==
    LET r == transfer(st, token_id, from, to) IN
    IF r.err # "Ok" THEN r
    ELSE IF call_receiver(to, reply) # "Ok" THEN Err(call_receiver(to, reply), r.st)
    ELSE r

\* Mutant: total_supply is not incremented.
mint_NoIncrement(st, to) == transfer(st, st.total_supply, Zero, to)

mint(st, to) ==
    LET new_token_id == st.total_supply
        s1 == [st EXCEPT !.total_supply = new_token_id + 1]
    IN transfer(s1, new_token_id, Zero, to)

\* Mutant: burning also takes the token out of total_supply.
burn_DecSupply(st, from, token_id) ==
    LET r == transfer(st, token_id, from, Zero) IN
    IF r.err # "Ok" THEN r
    ELSE [r EXCEPT !.st.total_supply = @ - 1]

burn(st, from, token_id) == transfer(st, token_id, from, Zero)

\* --------------------------------------------------------- public methods
safe_transfer_from_with_data(st, sender, from, to, token_id, reply) ==
    IF to = Zero THEN Err("TransferToZero", st)
    ELSE IF require_authorized_to_spend(st, sender, from, token_id) # "Ok"
         THEN Err(require_authorized_to_spend(st, sender, from, token_id), st)
    ELSE safe_transfer(st, token_id, from, to, reply)

safe_transfer_from(st, sender, from, to, token_id, reply) ==
    safe_transfer_from_with_data(st, sender, from, to, token_id, reply)

\* Mutant: the zero-address destination is not rejected.
transfer_from_NoZeroCheck(st, sender, from, to, token_id) ==
    IF require_authorized_to_spend(st, sender, from, token_id) # "Ok"
    THEN Err(require_authorized_to_spend(st, sender, from, token_id), st)
    ELSE transfer(st, token_id, from, to)

\* Mutant: the plain transfer goes through the safe transfer, with a
\* receiver that does not answer.
transfer_from_CallsReceiver(st, sender, from, to, token_id) ==
    safe_transfer_from_with_data(st, sender, from, to, token_id,
                                 [ok |-> FALSE, ret |-> 0])

transfer_from(st, sender, from, to, token_id) ==
    IF to = Zero THEN Err("TransferToZero", st)
    ELSE IF require_authorized_to_spend(st, sender, from, token_id) # "Ok"
         THEN Err(require_authorized_to_spend(st, sender, from, token_id), st)
    ELSE transfer(st, token_id, from, to)

\* Mutant: the caller is stored instead of the approved address.
approve_StoresSender(st, sender, approved, token_id) ==
    LET r == owner_of(st, token_id) IN
    IF r.err # "Ok" THEN Err(r.err, st)
    ELSE IF sender # r.owner /\ ~st.operator_approvals[r.owner][sender]
         THEN Err("NotApproved", st)
    ELSE Ok([st EXCEPT !.token_approvals[token_id] = sender],
            << Approval(r.owner, approved, token_id) >>)

\* Mutant: the approved address of the token may approve as well.
approve_AllowsApproved(st, sender, approved, token_id) ==
    LET r == owner_of(st, token_id) IN
    IF r.err # "Ok" THEN Err(r.err, st)
    ELSE IF /\ sender # r.owner
            /\ ~st.operator_approvals[r.owner][sender]
            /\ sender # st.token_approvals[token_id]
         THEN Err("NotApproved", st)
    ELSE Ok([st EXCEPT !.token_approvals[token_id] = approved],
            << Approval(r.owner, approved, token_id) >>)

approve(st, sender, approved, token_id) ==
    LET r == owner_of(st, token_id) IN
    IF r.err # "Ok" THEN Err(r.err, st)
    ELSE IF sender # r.owner /\ ~st.operator_approvals[r.owner][sender]
         THEN Err("NotApproved", st)
    ELSE Ok([st EXCEPT !.token_approvals[token_id] = approved],
            << Approval(r.owner, approved, token_id) >>)

\* Mutant: owner and operator are swapped in the stored entry.
set_approval_for_all_Swapped(st, sender, operator, approved) ==
    Ok([st EXCEPT !.operator_approvals[operator][sender] = approved],
       << ApprovalForAll(sender, operator, approved) >>)

set_approval_for_all(st, sender, operator, approved) ==
    Ok([st EXCEPT !.operator_approvals[sender][operator] = approved],
       << ApprovalForAll(sender, operator, approved) >>)

StylusNFT_mint(st, sender) == mint(st, sender)

StylusNFT_mint_to(st, to) == mint(st, to)

\* Mutant: whoever may spend the token may burn it.
StylusNFT_burn_Authorized(st, sender, token_id) ==
    IF require_authorized_to_spend(st, sender, st.owners[token_id], token_id) = "Ok"
    THEN burn(st, st.owners[token_id], token_id)
    ELSE burn(st, sender, token_id)

StylusNFT_burn(st, sender, token_id) == burn(st, sender, token_id)

\* ------------------------------------------------------------ the machine
Init ==
    /\ owners = [t \in Ids |-> Zero]
    /\ balances = [a \in Addr |-> 0]
    /\ token_approvals = [t \in Ids |-> Zero]
    /\ operator_approvals = [a \in Addr |-> [b \in Addr |-> FALSE]]
    /\ total_supply = 0
    /\ last = [op |-> "init", sender |-> Zero, err |-> "Ok"]
    /\ log = <<>>
    /\ pending = <<>>

\* One call of the entrypoint: an Ok result is committed, an Err result
\* reverts the call.  The calls suspended around it stay suspended.
Entrypoint(op, sender, r) ==
    /\ UNCHANGED pending
    /\ last' = [op |-> op, sender |-> sender, err |-> r.err]
    /\ IF r.err = "Ok"
       THEN /\ owners' = r.st.owners
            /\ balances' = r.st.balances
            /\ token_approvals' = r.st.token_approvals
            /\ operator_approvals' = r.st.operator_approvals
            /\ total_supply' = r.st.total_supply
            /\ log' = r.log
       ELSE /\ UNCHANGED ledger
            /\ log' = <<>>

Grants(st) == {p \in Addr \X Addr : st.operator_approvals[p[1]][p[2]]}

Mint(sender) ==
    /\ total_supply < MaxTokens
    /\ Entrypoint("mint", sender, StylusNFT_mint(Erc721, sender))

MintTo(sender, to) ==
    /\ total_supply < MaxTokens
    /\ Entrypoint("mintTo", sender, StylusNFT_mint_to(Erc721, to))

Burn(sender, token_id) ==
    /\ sender \in Senders
    /\ Entrypoint("burn", sender, StylusNFT_burn(Erc721, sender, token_id))

TransferFrom(sender, from, to, token_id) ==
    /\ sender \in Senders
    /\ Entrypoint("transferFrom", sender, transfer_from(Erc721, sender, from, to, token_id))

SafeTransferFrom(sender, from, to, token_id, reply) ==
    /\ sender \in Senders
    /\ Entrypoint("safeTransferFrom", sender,
                  safe_transfer_from(Erc721, sender, from, to, token_id, reply))

Approve(sender, approved, token_id) ==
    /\ sender \in Senders
    /\ Entrypoint("approve", sender, approve(Erc721, sender, approved, token_id))

SetApprovalForAll(sender, operator, approved) ==
    /\ approved => Cardinality(Grants(Erc721) \ {<<sender, operator>>}) < MaxGrants
    /\ Entrypoint("setApprovalForAll", sender,
                  set_approval_for_all(Erc721, sender, operator, approved))

Next ==
    \/ \E s \in Senders : Mint(s)
    \/ \E s \in Senders, to \in Addr : MintTo(s, to)
    \/ \E s \in Senders, t \in Ids : Burn(s, t)
    \/ \E s \in Senders, f \in Addr, to \in Addr, t \in Ids : TransferFrom(s, f, to, t)
    \/ \E s \in Senders, f \in Addr, to \in Addr, t \in Ids :
          \E r \in RepliesOf(to) : SafeTransferFrom(s, f, to, t, r)
    \/ \E s \in Senders, a \in Addr, t \in Ids : Approve(s, a, t)
    \/ \E s \in Senders, o \in Senders, b \in BOOLEAN : SetApprovalForAll(s, o, b)

Spec == Init /\ [][Next]_vars

\* ------------------------------------------------- the reentrant machine
\* pending is the stack of receivers whose on_erc_721_received is running,
\* one for every safeTransferFrom that has not returned yet.  While a call is
\* pending, the ledger is called by contracts only.
Callers == IF pending = <<>> THEN Senders ELSE Contracts

\* Mutant: the receiver is called when only the owner has been written.
safe_transfer_until_call_OwnerOnly(st, token_id, from, to) ==
    LET r == transfer(st, token_id, from, to) IN
    IF r.err # "Ok" THEN r
    ELSE [r EXCEPT !.st = [st EXCEPT !.owners[token_id] = to]]

\* safe_transfer as far as the external call made by call_receiver: transfer
\* has run to its end, and its storage is what a reentrant call finds.
safe_transfer_until_call(st, token_id, from, to) ==
    transfer(st, token_id, from, to)

\* safe_transfer_from_with_data as far as the external call.
safe_transfer_from_until_call(st, sender, from, to, token_id) ==
    IF to = Zero THEN Err("TransferToZero", st)
    ELSE IF require_authorized_to_spend(st, sender, from, token_id) # "Ok"
         THEN Err(require_authorized_to_spend(st, sender, from, token_id), st)
    ELSE safe_transfer_until_call(st, token_id, from, to)

\* safeTransferFrom reaches receiver.on_erc_721_received(..) and control
\* passes to the receiver.  A call that fails before that point, or whose
\* receiver has no code, is the action SafeTransferFrom.
OnERC721Received(sender, from, to, token_id) ==
    /\ Len(pending) < MaxDepth
    /\ to \in Contracts
    /\ LET r == safe_transfer_from_until_call(Erc721, sender, from, to, token_id) IN
         /\ r.err = "Ok"
         /\ owners' = r.st.owners
         /\ balances' = r.st.balances
         /\ token_approvals' = r.st.token_approvals
         /\ operator_approvals' = r.st.operator_approvals
         /\ total_supply' = r.st.total_supply
         /\ log' = r.log
         /\ last' = [op |-> "safeTransferFrom", sender |-> sender, err |-> "Pending"]
         /\ pending' = Append(pending, to)

\* The receiver returns the accepting value and the suspended call returns
\* Ok(()).  A receiver that refuses after its reentrant calls reverts the
\* suspended call with everything done inside it: the ledger is the one from
\* before the call, which is the action SafeTransferFrom with that reply.
ReceiverReturns(reply) ==
    /\ pending # <<>>
    /\ LET receiver == pending[Len(pending)] IN
         /\ call_receiver(receiver, reply) = "Ok"
         /\ last' = [op |-> "onERC721Received", sender |-> receiver, err |-> "Ok"]
         /\ log' = <<>>
    /\ pending' = SubSeq(pending, 1, Len(pending) - 1)
    /\ UNCHANGED ledger

\* A call from outside a callback that returns Err.  It is reverted and leaves
\* the ledger and pending as they are; Spec has these calls, and
\* SpecReentrant takes them only inside a callback, where the receiver goes
\* on after them.
TopLevelErr == pending = <<>> /\ last'.err # "Ok"

NextReentrant ==
    \/ \E s \in Callers :
          /\ Mint(s)
          /\ ~TopLevelErr
    \/ \E s \in Callers, to \in Addr :
          /\ MintTo(s, to)
          /\ ~TopLevelErr
    \/ \E s \in Callers, t \in Ids :
          /\ Burn(s, t)
          /\ ~TopLevelErr
    \/ \E s \in Callers, f \in Addr, to \in Addr, t \in Ids :
          /\ TransferFrom(s, f, to, t)
          /\ ~TopLevelErr
    \/ \E s \in Callers, f \in Addr, to \in Addr, t \in Ids :
          \E r \in RepliesOf(to) :
             /\ SafeTransferFrom(s, f, to, t, r)
             /\ ~TopLevelErr
    \/ \E s \in Callers, a \in Addr, t \in Ids :
          /\ Approve(s, a, t)
          /\ ~TopLevelErr
    \/ \E s \in Callers, o \in Senders, b \in BOOLEAN :
          /\ SetApprovalForAll(s, o, b)
          /\ ~TopLevelErr
    \/ \E s \in Callers, f \in Addr, to \in Contracts, t \in Ids :
          OnERC721Received(s, f, to, t)
    \/ \E r \in Replies : ReceiverReturns(r)

SpecReentrant == Init /\ [][NextReentrant]_vars


\* ------------------------------------------------- vocabulary of the claims
\* The ledger after the step.
Erc721Next == [ owners             |-> owners',
                balances           |-> balances',
                token_approvals    |-> token_approvals',
                operator_approvals |-> operator_approvals',
                total_supply       |-> total_supply' ]

\* Tokens that exist, the tokens of an address, the addresses that own one.
Live == {t \in Ids : owners[t] # Zero}
Owned(a) == {t \in Ids : owners[t] = a}
Holders == {owners[t] : t \in Live}

RECURSIVE SumBalances(_)
SumBalances(S) ==
    IF S = {} THEN 0
    ELSE LET a == CHOOSE x \in S : TRUE
         IN balance_of(Erc721, a) + SumBalances(S \ {a})

\* The sender is neither the owner of t, nor an operator of the owner, nor
\* the approved address of t.
Unauthorized(sender, t) ==
    /\ sender # owners[t]
    /\ ~is_approved_for_all(Erc721, owners[t], sender)
    /\ sender # get_approved(Erc721, t)

MoveOps == {"transferFrom", "safeTransferFrom", "mint", "mintTo", "burn"}

\* ---------------------------------------------------------------- claims
\* C1: for every address, the zero address included, balanceOf equals the
\* number of existing tokens it owns; the zero address, which owns no
\* existing token, never has a positive balance.
C1_BalanceEqualsOwnedCount ==
    /\ \A a \in Addr \ {Zero} : balance_of(Erc721, a) = Cardinality(Owned(a))
    /\ balance_of(Erc721, Zero) = 0

\* C2: the sum of balanceOf over the addresses that own at least one token
\* equals the number of tokens whose owner is not the zero address.
C2_SumOfBalances == SumBalances(Holders) = Cardinality(Live)

C2_Witness ==
    /\ last.op = "transferFrom" /\ last.err = "Ok"
    /\ Cardinality(Live) = 2 /\ Cardinality(Holders) = 2

\* C3: whenever the Transfer Engine runs (the step records a Transfer event),
\* balance[from] is at least 1 before it is decremented.
C3_NoUnderflow ==
    [][\A i \in 1 .. Len(log') :
         log'[i].event = "Transfer" => balance_of(Erc721, log'[i].from) >= 1]_vars

\* C4: every mint (target = caller) or mintTo(a) that is accepted makes a the
\* owner of the id totalSupply had, a is not the zero address, balanceOf(a)
\* and totalSupply grow by one and exactly one event Transfer(zero, a, id)
\* is recorded.
C4_MintPostcondition ==
    [][\A s \in Senders, a \in Addr :
         (((a = s /\ Mint(s)) \/ MintTo(s, a)) /\ last'.err = "Ok") =>
            /\ a # Zero
            /\ owner_of(Erc721Next, total_supply) = [err |-> "Ok", owner |-> a]
            /\ balance_of(Erc721Next, a) = balance_of(Erc721, a) + 1
            /\ total_supply' = total_supply + 1
            /\ log' = << Transfer(Zero, a, total_supply) >>
      ]_vars

\* C5: when the owner a of t calls burn(t), the call succeeds, ownerOf(t)
\* then fails with InvalidTokenId, balanceOf(a) is one less, totalSupply is
\* unchanged, and the balances of the other non-zero addresses and the owners
\* of the other tokens are unchanged.
C5_BurnPostcondition ==
    [][\A a \in Senders, t \in Ids :
         (last'.op = "burn" /\ owners[t] = a /\ Burn(a, t)) =>
            /\ last'.err = "Ok"
            /\ owner_of(Erc721Next, t).err = "InvalidTokenId"
            /\ balance_of(Erc721Next, a) = balance_of(Erc721, a) - 1
            /\ total_supply' = total_supply
            /\ \A b \in Addr \ {Zero, a} :
                  balance_of(Erc721Next, b) = balance_of(Erc721, b)
            /\ \A u \in Ids \ {t} : owners'[u] = owners[u]
      ]_vars

C5_Witness ==
    /\ last.op = "burn" /\ last.err = "Ok"
    /\ Live # {} /\ total_supply = 2

\* C6: token ids are never reused: totalSupply never decreases, no id at or
\* above totalSupply has an owner, the transfer inside a mint never fails, and
\* an id below totalSupply that has no owner (burned) never gets one again.
C6_IdsNeverReused ==
    /\ [](\A t \in Ids : t >= total_supply => owners[t] = Zero)
    /\ [][ /\ total_supply' >= total_supply
           /\ \A t \in Ids :
                 (t < total_supply /\ owners[t] = Zero) => owners'[t] = Zero
           /\ last'.op \in {"mint", "mintTo"} => last'.err = "Ok"
         ]_vars

C6_Witness ==
    /\ last.op \in {"mint", "mintTo"} /\ last.err = "Ok"
    /\ total_supply = 2 /\ owners[0] = Zero /\ owners[1] # Zero
    /\ balance_of(Erc721, owners[1]) = 1

\* C7: after every successful transferFrom, safeTransferFrom, mint, mintTo or
\* burn, getApproved of the moved token is the zero address.
C7_ApprovalClearedAfterMove ==
    (last.err = "Ok" /\ last.op \in MoveOps) =>
        /\ Len(log) = 1
        /\ get_approved(Erc721, log[1].token_id) = Zero

\* The caller was neither the owner nor an operator: it used the approval.
C7_Witness ==
    /\ last.op = "safeTransferFrom" /\ last.err = "Ok"
    /\ last.sender # log[1].from
    /\ ~is_approved_for_all(Erc721, log[1].from, last.sender)

\* C8: transferFrom(from, zero, id) fails with TransferToZero for every
\* caller, from and id, changes nothing in the ledger and records no event.
C8_TransferToZeroRejected ==
    /\ [](\A s \in Senders, f \in Addr, t \in Ids :
             LET r == transfer_from(Erc721, s, f, Zero, t)
             IN r.err = "TransferToZero" /\ r.st = Erc721 /\ r.log = <<>>)
    /\ [][(last'.op = "transferFrom" /\ last'.err = "TransferToZero") =>
             (UNCHANGED ledger /\ log' = <<>>)]_vars

\* The caller owns a token, so only the destination is at fault.
C8_Witness ==
    /\ last.op = "transferFrom" /\ last.err = "TransferToZero"
    /\ Owned(last.sender) # {}

\* What an unauthorized transfer of an existing token fails with.
UnauthorizedError(f, to, t) ==
    IF to = Zero THEN "TransferToZero"
    ELSE IF f # owners[t] THEN "NotOwner"
    ELSE "NotApproved"

\* The owner of an existing token changes to another non-zero address only
\* in a call of its owner, an operator of its owner or its approved address.
OwnerChangesOnlyByAuthorized ==
    \A t \in Ids :
       (owners[t] # Zero /\ owners'[t] \notin {Zero, owners[t]}) =>
          ~Unauthorized(last'.sender, t)

\* C9 as stated: every transferFrom or safeTransferFrom of an existing token
\* by a caller that is not its owner, an operator of its owner or its
\* approved address fails with NotApproved and changes nothing; so the owner
\* changes only in a call of an authorized caller.
C9_UnauthorizedFailsNotApproved ==
    /\ [](\A s \in Senders, f \in Addr, to \in Addr, t \in Ids :
             (owners[t] # Zero /\ Unauthorized(s, t)) =>
                /\ transfer_from(Erc721, s, f, to, t) = Err("NotApproved", Erc721)
                /\ \A r \in RepliesOf(to) :
                      safe_transfer_from(Erc721, s, f, to, t, r)
                         = Err("NotApproved", Erc721))
    /\ [][OwnerChangesOnlyByAuthorized]_vars

\* C9 amended: such a call always fails and changes nothing; the error is
\* TransferToZero when to is the zero address, else NotOwner when from is not
\* the owner, else NotApproved.  And the owner of an existing token changes to
\* another non-zero address only in a call of an authorized caller.
C9_UnauthorizedTransferFails ==
    /\ [](\A s \in Senders, f \in Addr, to \in Addr, t \in Ids :
             (owners[t] # Zero /\ Unauthorized(s, t)) =>
                /\ transfer_from(Erc721, s, f, to, t)
                      = Err(UnauthorizedError(f, to, t), Erc721)
                /\ \A r \in RepliesOf(to) :
                      safe_transfer_from(Erc721, s, f, to, t, r)
                         = Err(UnauthorizedError(f, to, t), Erc721))
    /\ [][ /\ OwnerChangesOnlyByAuthorized
           /\ last'.err # "Ok" => (UNCHANGED ledger /\ log' = <<>>) ]_vars

C9_Witness ==
    /\ last.op \in {"transferFrom", "safeTransferFrom"}
    /\ last.err = "NotApproved"

\* The last call was approve(B, t) by the owner of t, B being an address
\* that can call.
OwnerJustApproved ==
    /\ last.op = "approve" /\ last.err = "Ok"
    /\ log[1].owner = last.sender
    /\ log[1].approved \in Senders

\* The last call was a transferFrom that only the single-token approval
\* authorized: the caller is neither from nor an operator of from.
ApprovalJustUsed ==
    /\ last.op = "transferFrom" /\ last.err = "Ok"
    /\ last.sender # log[1].from
    /\ ~is_approved_for_all(Erc721, log[1].from, last.sender)

\* Right after A approved B for t, B's transferFrom(A, C, t) succeeds for
\* every non-zero C, makes C the owner and clears the approval.
ApproveThenTransferSucceeds ==
    OwnerJustApproved =>
       \A C \in Addr \ {Zero} :
          LET r == transfer_from(Erc721, log[1].approved, log[1].owner, C,
                                 log[1].token_id)
          IN /\ r.err = "Ok"
             /\ owner_of(r.st, log[1].token_id) = [err |-> "Ok", owner |-> C]
             /\ get_approved(r.st, log[1].token_id) = Zero

C11_OperatorAuthority ==
    /\ [](\A O \in Senders, op \in Senders, t \in Ids, to \in Addr \ {Zero} :
             owners[t] = O =>
             IF is_approved_for_all(Erc721, O, op)
             THEN /\ transfer_from(Erc721, op, O, to, t).err = "Ok"
                  /\ \A r \in RepliesOf(to) :
                        safe_transfer_from(Erc721, op, O, to, t, r).err
                           \in {"Ok", "ReceiverRefused"}
             ELSE (op # O /\ op # get_approved(Erc721, t)) =>
                  /\ transfer_from(Erc721, op, O, to, t).err = "NotApproved"
                  /\ \A r \in RepliesOf(to) :
                        safe_transfer_from(Erc721, op, O, to, t, r).err = "NotApproved")
    /\ [][ /\ last'.op = "setApprovalForAll" =>
                is_approved_for_all(Erc721Next, last'.sender, log'[1].operator)
                   = log'[1].approved
           /\ operator_approvals' # operator_approvals =>
                \A O \in Senders, op \in Senders :
                   (is_approved_for_all(Erc721, O, op)
                      /\ ~is_approved_for_all(Erc721Next, O, op)) =>
                      (last'.op = "setApprovalForAll" /\ last'.sender = O
                         /\ log' = << ApprovalForAll(O, op, FALSE) >>)
         ]_vars

\* O got a token while its grant to another address was already in place.
C11_Witness ==
    /\ last.op \in {"mint", "mintTo", "transferFrom"} /\ last.err = "Ok"
    /\ log[1].to \in Senders
    /\ \E op \in Senders \ {log[1].to} :
          /\ is_approved_for_all(Erc721, log[1].to, op)
          /\ last.sender # op

\* C12: a safeTransferFrom that passes the zero-address and authorization
\* checks, to an address with code whose acknowledgment call fails or returns
\* anything but 0x150b7a02, fails with ReceiverRefused, and the ledger after
\* the failed call is the ledger before it.
C12_RefusedSafeTransferRollsBack ==
    /\ [](\A s \in Senders, f \in Addr, to \in Contracts \ {Zero}, t \in Ids :
             require_authorized_to_spend(Erc721, s, f, t) = "Ok" =>
                \A r \in Replies :
                   (~r.ok \/ r.ret # ERC721_TOKEN_RECEIVER_ID) =>
                      safe_transfer_from(Erc721, s, f, to, t, r).err = "ReceiverRefused")
    /\ [][(last'.op = "safeTransferFrom" /\ last'.err = "ReceiverRefused") =>
             (UNCHANGED ledger /\ log' = <<>>)]_vars

\* The refused call was made by an address that owns a token.
C12_Witness ==
    /\ last.op = "safeTransferFrom" /\ last.err = "ReceiverRefused"
    /\ Owned(last.sender) # {}
    /\ \E t \in Live : get_approved(Erc721, t) # Zero

\* C13: to a non-zero address without code, safeTransferFrom gives the result
\* of transferFrom with the same caller and arguments (same error or same
\* resulting ledger and events), whatever a receiver would have replied: the
\* acknowledgment entry point is not invoked.
C13_SafeEqualsPlainWithoutCode ==
    [](\A s \in Senders, f \in Addr, to \in Addr \ (Contracts \cup {Zero}), t \in Ids :
          LET plain == transfer_from(Erc721, s, f, to, t) IN
          \A r \in Replies :
             /\ safe_transfer_from(Erc721, s, f, to, t, r) = plain
             /\ safe_transfer_from_with_data(Erc721, s, f, to, t, r) = plain)

C13_Witness ==
    /\ last.op = "safeTransferFrom" /\ last.err = "Ok"
    /\ log[1].to \notin Contracts
    /\ log[1].from # log[1].to

\* C14 as stated: a failing transferFrom fails with TransferToZero, NotOwner
\* or NotApproved and with no other error.
C14_TransferFromErrors ==
    last.op = "transferFrom" =>
       last.err \in {"Ok", "TransferToZero", "NotOwner", "NotApproved"}

\* C14 amended: a failing transferFrom fails with TransferToZero,
\* InvalidTokenId, NotOwner or NotApproved and with no other error.
C14_TransferFromErrorsWithInvalidTokenId ==
    /\ last.op = "transferFrom" =>
          last.err \in {"Ok", "TransferToZero", "InvalidTokenId", "NotOwner",
                        "NotApproved"}
    /\ \A s \in Senders, f \in Addr, to \in Addr, t \in Ids :
          transfer_from(Erc721, s, f, to, t).err
             \in {"Ok", "TransferToZero", "InvalidTokenId", "NotOwner", "NotApproved"}

C14_Witness ==
    /\ last.op = "transferFrom" /\ last.err = "InvalidTokenId"
    /\ Live # {}

\* The first failure condition of a transfer that applies, in the order of
\* the checks; Ok when none applies.
FirstFailure(s, f, to, t) ==
    IF to = Zero THEN "TransferToZero"
    ELSE IF owners[t] = Zero THEN "InvalidTokenId"
    ELSE IF f # owners[t] THEN "NotOwner"
    ELSE IF Unauthorized(s, t) THEN "NotApproved"
    ELSE "Ok"

\* C15: transferFrom and safeTransferFrom fail with the first condition that
\* applies of: to is zero (TransferToZero), the token does not exist
\* (InvalidTokenId), from is not the owner (NotOwner), the caller is not
\* authorized (NotApproved); the failure is decided before any storage write.
C15_CheckOrder ==
    [](\A s \in Senders, f \in Addr, to \in Addr, t \in Ids :
          LET first == FirstFailure(s, f, to, t)
              plain == transfer_from(Erc721, s, f, to, t)
          IN IF first # "Ok"
             THEN /\ plain = Err(first, Erc721)
                  /\ \A r \in RepliesOf(to) :
                        /\ safe_transfer_from(Erc721, s, f, to, t, r) = plain
                        /\ safe_transfer_from_with_data(Erc721, s, f, to, t, r) = plain
             ELSE /\ plain.err = "Ok"
                  /\ \A r \in RepliesOf(to) :
                        safe_transfer_from(Erc721, s, f, to, t, r).err
                           \in {"Ok", "ReceiverRefused"})

\* The caller owns the only existing token and still gets NotOwner: from was
\* wrong.
C15_Witness ==
    /\ last.op = "safeTransferFrom" /\ last.err = "NotOwner"
    /\ Cardinality(Live) = 1 /\ Owned(last.sender) = Live

\* C16: approve(approved, t) succeeds exactly when t exists and the caller is
\* its owner or an operator of its owner; then getApproved(t) = approved and
\* nothing else changes.  On a token that does not exist it fails with
\* InvalidTokenId, for any other caller, the approved address of t included,
\* with NotApproved, and a failure changes nothing.
C16_ApproveRule ==
    /\ [](\A s \in Senders, a \in Addr, t \in Ids :
             LET r == approve(Erc721, s, a, t) IN
             IF owners[t] = Zero THEN r = Err("InvalidTokenId", Erc721)
             ELSE IF s = owners[t] \/ is_approved_for_all(Erc721, owners[t], s)
             THEN /\ r.err = "Ok"
                  /\ get_approved(r.st, t) = a
                  /\ \A u \in Ids \ {t} : get_approved(r.st, u) = get_approved(Erc721, u)
                  /\ r.st.owners = owners /\ r.st.balances = balances
                  /\ r.st.operator_approvals = operator_approvals
                  /\ r.st.total_supply = total_supply
             ELSE r = Err("NotApproved", Erc721))
    /\ [][(last'.op = "approve" /\ last'.err # "Ok") =>
             (UNCHANGED ledger /\ log' = <<>>)]_vars

\* The caller is the approved address of the only existing token and is
\* refused.
C16_Witness ==
    /\ last.op = "approve" /\ last.err = "NotApproved"
    /\ Cardinality(Live) = 1
    /\ \A t \in Live : get_approved(Erc721, t) = last.sender

\* C17: the operator-approval entry of (O, P) changes only in a
\* setApprovalForAll(P, flag) call of O, which always succeeds and sets it to
\* flag; every other call leaves it as it is, also when O owns no token.
C17_OperatorEntryFrame ==
    /\ [](\A s \in Senders, o \in Addr, b \in BOOLEAN :
             LET r == set_approval_for_all(Erc721, s, o, b) IN
             /\ r.err = "Ok"
             /\ is_approved_for_all(r.st, s, o) = b
             /\ \A O \in Addr, P \in Addr :
                   <<O, P>> # <<s, o>> =>
                      is_approved_for_all(r.st, O, P) = is_approved_for_all(Erc721, O, P))
    /\ [][operator_approvals' # operator_approvals =>
             \A O \in Addr, P \in Addr :
                is_approved_for_all(Erc721Next, O, P) # is_approved_for_all(Erc721, O, P) =>
                   /\ last'.op = "setApprovalForAll" /\ last'.err = "Ok"
                   /\ last'.sender = O
                   /\ log' = << ApprovalForAll(O, P, is_approved_for_all(Erc721Next, O, P)) >>
         ]_vars

\* O gave its last token away and its grant is still there.
C17_Witness ==
    /\ last.op \in {"transferFrom", "safeTransferFrom", "burn"} /\ last.err = "Ok"
    /\ Owned(log[1].from) = {}
    /\ \E P \in Senders : is_approved_for_all(Erc721, log[1].from, P)

\* C18: burn(t) burns only for the current owner of t: for any other caller,
\* operators and the approved address included, and for a token that does
\* not exist, it fails with NotOwner and changes nothing.
C18_BurnOnlyByOwner ==
    /\ [](\A s \in Senders, t \in Ids :
             IF owners[t] = s
             THEN StylusNFT_burn(Erc721, s, t).err = "Ok"
             ELSE StylusNFT_burn(Erc721, s, t) = Err("NotOwner", Erc721))
    /\ [][last'.op = "burn" =>
             IF last'.err = "Ok"
             THEN log' = << Transfer(last'.sender, Zero, log'[1].token_id) >>
                  /\ owners[log'[1].token_id] = last'.sender
             ELSE last'.err = "NotOwner" /\ UNCHANGED ledger /\ log' = <<>>
         ]_vars

\* The refused caller may spend every existing token, as operator of its
\* owner.
C18_Witness ==
    /\ last.op = "burn" /\ last.err = "NotOwner"
    /\ Live # {}
    /\ \A t \in Live : is_approved_for_all(Erc721, owners[t], last.sender)

\* C19: a token that does not exist has no single-token approval:
\* getApproved(t) is the zero address unless t has a non-zero owner.
C19_NoApprovalWithoutOwner ==
    \A t \in Ids : get_approved(Erc721, t) # Zero => owner_of(Erc721, t).err = "Ok"

\* A token was burned by a caller while another token carries an approval.
C19_Witness ==
    /\ last.op = "burn" /\ last.err = "Ok"
    /\ get_approved(Erc721, log[1].token_id) = Zero
    /\ \E t \in Live : get_approved(Erc721, t) # Zero

\* ------------------------------------------------------------------- C20
\* The ledger is in the middle of a safeTransferFrom (a receiver callback is
\* running), or the last step was the accepting return of a callback, after
\* which the safeTransferFrom returns Ok(()).
InOrAfterCallback ==
    \/ pending # <<>>
    \/ last.op = "onERC721Received" /\ last.err = "Ok"

\* The receiver has just been called: log holds the Transfer event of the
\* suspended call, and the ledger shows that transfer in full.
TransferCompleteAtCall ==
    last.err = "Pending" =>
        LET e == log[1] IN
        /\ pending # <<>>
        /\ e.to = pending[Len(pending)]
        /\ owner_of(Erc721, e.token_id) = [err |-> "Ok", owner |-> e.to]
        /\ get_approved(Erc721, e.token_id) = Zero
        /\ balance_of(Erc721, e.from) = Cardinality(Owned(e.from))
        /\ balance_of(Erc721, e.to) = Cardinality(Owned(e.to))

\* C20: when the receiver callback of safeTransferFrom(from, to, t) re-enters
\* the ledger, the transfer is already complete (owner of t is to, balances
\* adjusted, approval of t cleared); every state the reentrant calls find or
\* produce, and the state after the outer call has returned Ok, has
\* balanceOf(a) = number of tokens owned by a for every non-zero a, and
\* every token that exists has exactly one owner.
C20_ReentrantCallsKeepBalances ==
    /\ TransferCompleteAtCall
    /\ InOrAfterCallback =>
          /\ \A a \in Addr \ {Zero} : balance_of(Erc721, a) = Cardinality(Owned(a))
          /\ \A t \in Live : Cardinality({a \in Addr \ {Zero} : t \in Owned(a)}) = 1

\* Inside a callback the receiver has moved a token by a reentrant
\* transferFrom.
C20_Witness ==
    /\ pending # <<>>
    /\ last = [op |-> "transferFrom", sender |-> pending[Len(pending)], err |-> "Ok"]
    /\ log # <<>>
    /\ log[1].from = pending[Len(pending)]
====
